---- MODULE Spec2Model ----
(***************************************************************************)
(* A model of the documentation-page injection scripts of cargo-cpl.       *)
(*                                                                         *)
(* Three variants of the routine exist in the sources:                     *)
(*   "modifyDocblock"          src/injection/index.ts, lines 1-105         *)
(*   "registerModification_ts" src/injection/index.ts, lines 107-315       *)
(*   "registerModification_js" src/unnamed/part_000                        *)
(*                                                                         *)
(* The page is a tree of DOM nodes.  A node is a record                    *)
(*   [tagName, attributes, childNodes, data]                               *)
(* where attributes is the ordered list of [name, value] records, and a    *)
(* text node has tagName "#text" and carries its text in data.  A          *)
(* reference to a node that is attached to the page is the path of child   *)
(* indices that leads to it from the document node.                        *)
(***************************************************************************)
EXTENDS Integers, Sequences, FiniteSets, TLC

VARIABLES
    variant,      \* which of the three scripts the page includes
    pathname,     \* window.location.pathname, as a sequence of characters
    document,     \* the page's DOM, rooted at the document node
    listeners,    \* the DOMContentLoaded listeners, in registration order
    fired,        \* DOMContentLoaded has been dispatched
    calls,        \* history: one entry per call of the entry function
    runs,         \* history: the arguments of every run that reached a container
    before,       \* history: the DOM as it was before the most recent run
    document0,    \* history: the DOM as it was when the page was parsed
    atFire,       \* history: the pathname and listener count at dispatch time
    fn            \* a direct application of one of the fragment builders

vars == <<variant, pathname, document, listeners, fired, calls, runs, before,
          document0, atFire, fn>>

----------------------------------------------------------------------------
(* Bounds of the model. *)

MaxCalls == 2

MaxRuns == 6

MaxPairs == 2

MaxKids == 2

MaxBytes == 2100

----------------------------------------------------------------------------
(* DOM primitives. *)

\* Element.tagName of an element made by createElement in an HTML document:
\* the upper-cased local name.
TagName(localName) ==
    CASE localName \in {"h1", "H1"} -> "H1"
      [] localName \in {"h2", "H2"} -> "H2"
      [] localName \in {"h3", "H3"} -> "H3"
      [] localName \in {"h4", "H4"} -> "H4"
      [] localName \in {"h5", "H5"} -> "H5"
      [] localName \in {"h6", "H6"} -> "H6"
      [] localName \in {"div", "DIV"} -> "DIV"
      [] localName \in {"p", "P"} -> "P"
      [] localName \in {"a", "A"} -> "A"
      [] localName \in {"ul", "UL"} -> "UL"
      [] localName \in {"li", "LI"} -> "LI"
      [] localName \in {"span", "SPAN"} -> "SPAN"
      [] localName \in {"strong", "STRONG"} -> "STRONG"
      [] localName \in {"img", "IMG"} -> "IMG"
      [] localName \in {"pre", "PRE"} -> "PRE"
      [] localName \in {"code", "CODE"} -> "CODE"
      [] OTHER -> localName

createElement(localName) ==
    [tagName |-> TagName(localName), attributes |-> <<>>, childNodes |-> <<>>,
     data |-> ""]

createTextNode(text) ==
    [tagName |-> "#text", attributes |-> <<>>, childNodes |-> <<>>, data |-> text]

isElement(node) == node.tagName \notin {"#text", "#document"}

\* Element.setAttribute: the value of an attribute the element has is
\* replaced in place, a new attribute is added after the others.
setAttribute(el, name, value) ==
    IF \E i \in 1..Len(el.attributes) : el.attributes[i].name = name
    THEN [el EXCEPT !.attributes =
            [i \in 1..Len(@) |-> IF @[i].name = name
                                 THEN [name |-> name, value |-> value]
                                 ELSE @[i]]]
    ELSE [el EXCEPT !.attributes = Append(@, [name |-> name, value |-> value])]

\* ParentNode.append and ParentNode.prepend with a list of nodes (a string
\* argument is given as the text node the DOM makes of it).
append(el, nodes) == [el EXCEPT !.childNodes = @ \o nodes]

prepend(el, nodes) == [el EXCEPT !.childNodes = nodes \o @]

\* The class names of a class attribute value, split at white space.
ClassTokens(value) ==
    CASE value = "section-header small" -> {"section-header", "small"}
      [] value = "in-band fqn" -> {"in-band", "fqn"}
      [] value = "docblock type-decl" -> {"docblock", "type-decl"}
      [] value = "" -> {}
      [] OTHER -> {value}

\* Element.matches("." + cls)
matches(node, cls) ==
    /\ isElement(node)
    /\ \E i \in 1..Len(node.attributes) :
          /\ node.attributes[i].name = "class"
          /\ cls \in ClassTokens(node.attributes[i].value)

NoNode == <<0>>

RECURSIVE NodeAt(_, _)
NodeAt(root, path) ==
    IF path = <<>> THEN root
    ELSE NodeAt(root.childNodes[Head(path)], Tail(path))

RECURSIVE ReplaceAt(_, _, _)
ReplaceAt(root, path, node) ==
    IF path = <<>> THEN node
    ELSE [root EXCEPT !.childNodes[Head(path)] = ReplaceAt(@, Tail(path), node)]

Front(path) == SubSeq(path, 1, Len(path) - 1)

Last(path) == path[Len(path)]

\* The paths of the descendants of node, in document order; prefix is the
\* path of node itself and i the child to start from.
RECURSIVE DescendantsFrom(_, _, _)
DescendantsFrom(node, prefix, i) ==
    IF i > Len(node.childNodes) THEN <<>>
    ELSE <<Append(prefix, i)>>
         \o DescendantsFrom(node.childNodes[i], Append(prefix, i), 1)
         \o DescendantsFrom(node, prefix, i + 1)

\* scope.querySelectorAll("." + cls): a static list, in document order, of
\* the descendants of the node at scope that match.
querySelectorAll(root, scope, cls) ==
    SelectSeq(DescendantsFrom(NodeAt(root, scope), scope, 1),
              LAMBDA p : matches(NodeAt(root, p), cls))

\* document.querySelector("." + cls): the first match, or null.
querySelector(root, cls) ==
    LET all == querySelectorAll(root, <<>>, cls)
    IN  IF all = <<>> THEN NoNode ELSE Head(all)

\* target.insertAdjacentElement("afterend", node): node becomes the next
\* sibling of the node at target.
insertAfterend(root, target, node) ==
    LET parent == NodeAt(root, Front(target))
        i == Last(target)
        kids == parent.childNodes
    IN  ReplaceAt(root, Front(target),
            [parent EXCEPT !.childNodes =
                SubSeq(kids, 1, i) \o <<node>> \o SubSeq(kids, i + 1, Len(kids))])

prependAt_appends(root, path, node) ==
    ReplaceAt(root, path, append(NodeAt(root, path), <<node>>))

\* container.prepend(node) for the attached container at path.
prependAt(root, path, node) ==
    ReplaceAt(root, path, prepend(NodeAt(root, path), <<node>>))

----------------------------------------------------------------------------
(* The location of the page. *)

IndexSuffix == <<"/", "i", "n", "d", "e", "x", ".", "h", "t", "m", "l">>

Pathnames ==
    { <<"/", "x">> \o IndexSuffix,                        \* /x/index.html
      <<"/", "x", "/", "f", "n", ".", "y", ".", "h", "t", "m", "l">>,
      <<"/", "x", "/", "x">> \o Tail(IndexSuffix) }       \* /x/xindex.html

\* String.prototype.endsWith
endsWith(string, suffix) ==
    /\ Len(string) >= Len(suffix)
    /\ SubSeq(string, Len(string) - Len(suffix) + 1, Len(string)) = suffix

pathnameAccepted_noSlash(string) == endsWith(string, Tail(IndexSuffix))

\* The check at the head of registerModification.
pathnameAccepted(string) == endsWith(string, IndexSuffix)

----------------------------------------------------------------------------
(* An element with its attributes and children set, as the builders below  *)
(* make them step by step.                                                  *)

RECURSIVE setAttributes(_, _, _)
setAttributes(el, attributes, i) ==
    IF i > Len(attributes) THEN el
    ELSE setAttributes(setAttribute(el, attributes[i].name, attributes[i].value),
                       attributes, i + 1)

Attr(name, value) == [name |-> name, value |-> value]

----------------------------------------------------------------------------
(* Heading factory (the same in the three variants). *)

createHeader_unmarked(name, id) ==
    LET header == setAttribute(setAttribute(createElement("h1"), "id", id),
                               "class", "header")
        a == append(setAttribute(createElement("a"), "href", "#" \o id),
                    <<createTextNode(name)>>)
    IN  append(header, <<a>>)

createHeader(name, id) ==
    LET header == setAttribute(setAttribute(createElement("h1"), "id", id),
                               "class", "section-header")
        a == append(setAttribute(createElement("a"), "href", "#" \o id),
                    <<createTextNode(name)>>)
    IN  append(header, <<a>>)

----------------------------------------------------------------------------
(* Heading downgrade (the same in the three variants). *)

DowngradedTagName(tagName) ==
    CASE tagName = "H1" -> "H2"
      [] tagName = "H2" -> "H3"
      [] tagName = "H3" -> "H4"
      [] tagName = "H4" -> "H5"
      [] tagName = "H5" -> "H6"
      [] OTHER -> tagName

replaceSectionHeader_noAttributes(root, sectionHeader) ==
    LET old == NodeAt(root, sectionHeader)
    IN  ReplaceAt(root, sectionHeader,
            append(createElement(DowngradedTagName(old.tagName)), old.childNodes))

\* The body of the forEach callback: a new element of the downgraded tag
\* gets the attributes and then the children of sectionHeader, and takes
\* its place.
replaceSectionHeader(root, sectionHeader) ==
    LET old == NodeAt(root, sectionHeader)
        replacement == append(
            setAttributes(createElement(DowngradedTagName(old.tagName)),
                          old.attributes, 1),
            old.childNodes)
    IN  ReplaceAt(root, sectionHeader, replacement)

RECURSIVE forEachSectionHeader(_, _, _)
forEachSectionHeader(root, list, i) ==
    IF i > Len(list) THEN root
    ELSE forEachSectionHeader(replaceSectionHeader(root, list[i]), list, i + 1)

downgradeSectionHeaders(root, docblock) ==
    forEachSectionHeader(root, querySelectorAll(root, docblock, "section-header"), 1)

----------------------------------------------------------------------------
(* Verification-status block. *)

createMark(src, char) ==
    setAttributes(createElement("img"),
        <<Attr("src", src), Attr("alt", char), Attr("title", char),
          Attr("width", "20"), Attr("height", "20")>>, 1)

\* The alt and title characters U+2714 and U+26A0 are written by name.
createHeavyCheckMark ==
    createMark("https://github.githubassets.com/images/icons/emoji/unicode/2714.png",
               "HEAVY CHECK MARK")

createWarningMark ==
    createMark("https://github.githubassets.com/images/icons/emoji/unicode/26a0.png",
               "WARNING SIGN")

\* One pass of the loop over the pairs: the list item of a pair.
verifiedWithItem(pair) ==
    LET a1 == append(setAttribute(createElement("a"), "href", pair[1]),
                     <<createTextNode(pair[1])>>)
        a2 == append(setAttribute(createElement("a"), "href", pair[2]),
                     <<createTextNode("code")>>)
    IN  append(createElement("li"),
               <<a1, createTextNode(" ("), a2, createTextNode(")")>>)

verifiedWithList(verifiedWith) ==
    append(createElement("ul"),
           [i \in 1..Len(verifiedWith) |-> verifiedWithItem(verifiedWith[i])])

verifiedWithStatus_noSingular(length) ==
    IF length = 0
    THEN <<append(createElement("strong"),
                  <<createWarningMark,
                    createTextNode(" This library is not verified.")>>)>>
    ELSE <<createHeavyCheckMark,
           createTextNode(" This library verified with " \o ToString(length)
                          \o " solutions.")>>

\* The status line: what the switch on verifiedWith.length appends to div.
verifiedWithStatus(length) ==
    CASE length = 0 ->
           <<append(createElement("strong"),
                    <<createWarningMark,
                      createTextNode(" This library is not verified.")>>)>>
      [] length = 1 ->
           <<createHeavyCheckMark,
             createTextNode(" This library verified with 1 solution.")>>
      [] OTHER ->
           <<createHeavyCheckMark,
             createTextNode(" This library verified with " \o ToString(length)
                            \o " solutions.")>>

\* registerModification variants
createVerifiedWithSection(verifiedWith) ==
    append(append(createElement("div"), verifiedWithStatus(Len(verifiedWith))),
           <<verifiedWithList(verifiedWith)>>)

\* modifyDocblock variant
createVerifiedWithSection_md(verifiedWith) == verifiedWithList(verifiedWith)

----------------------------------------------------------------------------
(* Code-size block.  The size input is null, a string or a number:         *)
(*   [type |-> "null" | "string" | "number", string |-> ..., number |-> ..] *)

Null == [type |-> "null", string |-> "", number |-> 0]

String(s) == [type |-> "string", string |-> s, number |-> 0]

Number(n) == [type |-> "number", string |-> "", number |-> n]

KiB == 1024

formatKiB_rounded(codeSizeUnmodified) ==
    LET div == codeSizeUnmodified \div KiB
        rem == codeSizeUnmodified % KiB
    IN  "" \o ToString(div) \o "." \o ToString((10 * rem + KiB \div 2) \div KiB)
        \o " KiB"

\* The text appended for a numeric size: whole KiB, a point, the tenths.
formatKiB(codeSizeUnmodified) ==
    LET div == codeSizeUnmodified \div KiB
        rem == codeSizeUnmodified % KiB
    IN  "" \o ToString(div) \o "." \o ToString((10 * rem) \div KiB) \o " KiB"

\* registerModification of src/unnamed/part_000
createCodeSizeSection(codeSizeUnmodified) ==
    LET li1a == append(createElement("li"), <<createTextNode("unmodified: ")>>)
        li1b == IF codeSizeUnmodified.type = "number"
                THEN append(li1a, <<createTextNode(formatKiB(codeSizeUnmodified.number))>>)
                ELSE append(li1a, <<append(createElement("code"),
                                <<createTextNode(codeSizeUnmodified.string)>>)>>)
        li1 == append(li1b, <<createTextNode(" + (not yet implemented) KiB")>>)
        code1 == append(createElement("code"), <<createTextNode("#[cfg]")>>)
        code2 == append(createElement("code"), <<createTextNode("#[cfg]")>>)
        li2 == append(createElement("li"),
                 <<code1, createTextNode(
                   " resolved + (doc-)comment removed + Rustfmt: (not yet implemented)")>>)
        li3 == append(createElement("li"),
                 <<code2, createTextNode(
                   " resolved + doc-comment removed + minified: (not yet implemented)")>>)
    IN  append(createElement("ul"), <<li1, li2, li3>>)

\* The list items createCodeSizeSection of src/injection/index.ts builds.
codeSizeItems_ts(codeSizeUnmodified) ==
    LET li1 == append(createElement("li"),
                 <<createTextNode("unmodified: " \o codeSizeUnmodified.string
                                  \o " KiB + (not yet implemented) KiB")>>)
        li2 == append(createElement("li"), <<createTextNode("")>>)
    IN  <<li1, li2>>

\* both variants of src/injection/index.ts: li2 is built, li1 alone is
\* appended to the list
createCodeSizeSection_ts(codeSizeUnmodified) ==
    append(createElement("ul"), <<codeSizeItems_ts(codeSizeUnmodified)[1]>>)

----------------------------------------------------------------------------
(* Dependency / install-command blocks. *)

\* createDependencySection of src/injection/index.ts and
\* createCargoAddCommandSection of src/unnamed/part_000
createCargoAddCommandSection(cargoAddCommand) ==
    LET code == append(setAttribute(createElement("code"), "class", "language-console"),
                       <<createTextNode("$ " \o cargoAddCommand \o "\n")>>)
    IN  append(createElement("pre"), <<code>>)

createDependenciesSection(items) ==
    IF Len(items) = 0 THEN createTextNode("No dependencies.")
    ELSE append(createElement("ul"),
           [i \in 1..Len(items) |->
              append(createElement("li"),
                <<append(setAttribute(createElement("a"), "href", items[i][2]),
                         <<createTextNode(items[i][1])>>)>>)])

----------------------------------------------------------------------------
(* First block. *)

\* src/injection/index.ts
createFirstSection_ts(manifestRelPath, manifestHref, license) ==
    LET code1 == append(createElement("code"), <<createTextNode(manifestRelPath)>>)
        a == append(setAttribute(createElement("a"), "href", manifestHref), <<code1>>)
        li1 == append(createElement("li"), <<createTextNode("Manifest: "), a>>)
        code2 == append(createElement("code"), <<createTextNode(license)>>)
        li2 == append(createElement("li"), <<createTextNode("License: "), code2>>)
    IN  append(createElement("ul"), <<li1, li2>>)

\* src/unnamed/part_000
createFirstSection(manifestDirBlobURL, license) ==
    LET a == append(setAttribute(createElement("a"), "href", manifestDirBlobURL),
                    <<createTextNode("View on GitHub")>>)
        li1 == append(createElement("li"), <<a>>)
        code == append(createElement("code"), <<createTextNode(license)>>)
        li2 == append(createElement("li"), <<createTextNode("License: "), code>>)
    IN  append(createElement("ul"), <<li1, li2>>)

----------------------------------------------------------------------------
(* Container resolution (registerModification variants). *)

createToggleWrapper ==
    LET span1 == append(setAttribute(createElement("span"), "class", "inner"),
                        <<createTextNode("-")>>)
        span2 == append(setAttributes(createElement("span"),
                          <<Attr("class", "toggle-label"),
                            Attr("style", "display: none;")>>, 1),
                        <<createTextNode(" Expand description")>>)
        a == append(setAttributes(createElement("a"),
                      <<Attr("class", "collapse-toggle"),
                        Attr("href", "javascript:void(0)")>>, 1),
                    <<createTextNode("["), span1, createTextNode("] "), span2>>)
    IN  append(setAttribute(createElement("div"), "class", "toggle-wrapper"), <<a>>)

findOrCreateDocblock_noAnchorCheck(root) ==
    LET found == querySelector(root, "docblock")
        fqn == querySelector(root, "fqn")
        docblock == setAttribute(createElement("div"), "class", "docblock")
    IN  IF found # NoNode THEN [document |-> root, docblock |-> found]
        ELSE IF fqn = NoNode
        THEN [document |-> append(root, <<createToggleWrapper, docblock>>),
              docblock |-> <<Len(root.childNodes) + 2>>]
        ELSE [document |-> insertAfterend(insertAfterend(root, fqn, docblock),
                                          fqn, createToggleWrapper),
              docblock |-> Append(Front(fqn), Last(fqn) + 2)]

findOrCreateDocblock_toggleLast(root) ==
    LET found == querySelector(root, "docblock")
        fqn == querySelector(root, "fqn")
        docblock == setAttribute(createElement("div"), "class", "docblock")
    IN  IF found # NoNode THEN [document |-> root, docblock |-> found]
        ELSE IF fqn = NoNode THEN [document |-> root, docblock |-> NoNode]
        ELSE [document |-> insertAfterend(insertAfterend(root, fqn, createToggleWrapper),
                                          fqn, docblock),
              docblock |-> Append(Front(fqn), Last(fqn) + 1)]

\* The page after the call and the container returned (NoNode for null).
\* The container goes in right after the anchor, then the toggle control
\* goes in right after the anchor too, which moves the container one on.
findOrCreateDocblock(root) ==
    LET found == querySelector(root, "docblock")
        fqn == querySelector(root, "fqn")
        docblock == setAttribute(createElement("div"), "class", "docblock")
    IN  IF found # NoNode THEN [document |-> root, docblock |-> found]
        ELSE IF fqn = NoNode THEN [document |-> root, docblock |-> NoNode]
        ELSE [document |-> insertAfterend(insertAfterend(root, fqn, docblock),
                                          fqn, createToggleWrapper),
              docblock |-> Append(Front(fqn), Last(fqn) + 2)]

----------------------------------------------------------------------------
(* The routine.  args is the record of the entry function's arguments:     *)
(*   manifestRelPath, manifestHref (manifestDirBlobURL in part_000),       *)
(*   license, cargoAddCommand, dependencyUL, codeSizeUnmodified,           *)
(*   verifiedWith.                                                          *)

RECURSIVE prependAll(_, _, _, _)
prependAll(root, docblock, nodes, i) ==
    IF i > Len(nodes) THEN root
    ELSE prependAll(prependAt(root, docblock, nodes[i]), docblock, nodes, i + 1)

\* The nodes the routine prepends, in the order of its prepend calls.
prepended_ts(args) ==
    <<createHeader("Description", "description"),
      createVerifiedWithSection(args.verifiedWith),
      createHeader("Verified with", "verified-with")>>
    \o (IF args.codeSizeUnmodified # Null
        THEN <<createCodeSizeSection_ts(args.codeSizeUnmodified),
               createHeader("Code size", "code-size")>>
        ELSE <<>>)
    \o <<createCargoAddCommandSection(args.cargoAddCommand),
         createFirstSection_ts(args.manifestRelPath, args.manifestHref, args.license)>>

prepended_md(args) ==
    <<createHeader("Description", "description"),
      createVerifiedWithSection_md(args.verifiedWith),
      createHeader("Verified with", "verified-with")>>
    \o (IF args.codeSizeUnmodified # Null
        THEN <<createCodeSizeSection_ts(args.codeSizeUnmodified),
               createHeader("Code size", "code-size")>>
        ELSE <<>>)
    \o <<createCargoAddCommandSection(args.cargoAddCommand),
         createFirstSection_ts(args.manifestRelPath, args.manifestHref, args.license)>>

prepended_js(args) ==
    <<createHeader("Description", "description"),
      createVerifiedWithSection(args.verifiedWith),
      createHeader("Verified with", "verified-with")>>
    \o (IF args.codeSizeUnmodified # Null
        THEN <<createCodeSizeSection(args.codeSizeUnmodified),
               createHeader("Code size", "code-size")>>
        ELSE <<>>)
    \o <<createDependenciesSection(args.dependencyUL),
         createHeader("Dependencies", "dependencies"),
         createCargoAddCommandSection(args.cargoAddCommand),
         createFirstSection(args.manifestHref, args.license)>>

prepended(v, args) ==
    CASE v = "modifyDocblock" -> prepended_md(args)
      [] v = "registerModification_ts" -> prepended_ts(args)
      [] v = "registerModification_js" -> prepended_js(args)

callback_checksPathname(v, root, args) ==
    LET r == findOrCreateDocblock(root)
    IN  IF r.docblock = NoNode \/ ~endsWith(pathname, IndexSuffix)
        THEN [document |-> root, ran |-> FALSE]
        ELSE [document |-> prependAll(downgradeSectionHeaders(r.document, r.docblock),
                                      r.docblock, prepended(v, args), 1),
              ran |-> TRUE]

\* The DOMContentLoaded listener of registerModification: the page after it
\* has run, and whether it got past the container check.
callback(v, root, args) ==
    LET r == findOrCreateDocblock(root)
    IN  IF r.docblock = NoNode THEN [document |-> root, ran |-> FALSE]
        ELSE [document |-> prependAll(downgradeSectionHeaders(r.document, r.docblock),
                                      r.docblock, prepended(v, args), 1),
              ran |-> TRUE]

\* modifyDocblock of src/injection/index.ts
modifyDocblock(root, args) ==
    LET docblock == querySelector(root, "docblock")
    IN  IF docblock # NoNode
        THEN [document |-> prependAll(downgradeSectionHeaders(root, docblock),
                                      docblock, prepended_md(args), 1),
              ran |-> TRUE]
        ELSE [document |-> root, ran |-> FALSE]

----------------------------------------------------------------------------
(* The page, its location and the arguments the generator passes. *)

createDocument(children) ==
    [tagName |-> "#document", attributes |-> <<>>, childNodes |-> children,
     data |-> ""]

\* <tag id=id class=class><a href=#id>text</a></tag>, as rustdoc writes headings
Heading(tag, id, class) ==
    append(setAttributes(createElement(tag),
             IF class = "" THEN <<Attr("id", id)>>
             ELSE <<Attr("id", id), Attr("class", class)>>, 1),
           <<append(setAttribute(createElement("a"), "href", "#" \o id),
                    <<createTextNode(id)>>)>>)

Paragraph(text) == append(createElement("p"), <<createTextNode(text)>>)

Fqn ==
    append(setAttribute(createElement("h1"), "class", "fqn"),
           <<append(setAttribute(createElement("span"), "class", "in-band"),
                    <<createTextNode("Crate x")>>)>>)

Docblock(children) ==
    append(setAttribute(createElement("div"), "class", "docblock"), children)

\* Children a documentation container can have.
Shapes ==
    { Heading("h1", "examples", "section-header"),
      Heading("h2", "panics", "section-header"),
      Heading("h3", "safety", "section-header"),
      Heading("h4", "notes", "section-header small"),
      Heading("h5", "errors", "section-header"),
      Heading("h6", "see-also", "section-header"),
      Heading("h2", "plain", ""),
      Heading("h3", "other", "small-section-header"),
      append(setAttribute(createElement("div"), "class", "section-header"),
             <<Heading("h5", "inner", "section-header"), createTextNode("tail")>>),
      append(createElement("p"),
             <<createTextNode("See "), Heading("h1", "deep", "section-header")>>),
      createTextNode("text") }

Existing ==
    <<Paragraph("A library."),
      Heading("h1", "examples", "section-header"),
      Heading("h5", "errors", "section-header"),
      Heading("h2", "plain", ""),
      append(setAttribute(createElement("div"), "class", "section-header"),
             <<Heading("h6", "inner", "section-header")>>)>>

Pages ==
    { createDocument(<<Paragraph("Not a documentation page.")>>),
      createDocument(<<Fqn, Paragraph("Modules")>>),
      createDocument(<<Fqn, Docblock(Existing), Paragraph("Modules")>>),
      createDocument(<<Docblock(Existing)>>) }

Pair(i) ==
    <<"https://judge.example/problem/" \o ToString(i),
      "https://github.com/x/x/blob/master/verify/" \o ToString(i) \o ".rs">>

Dependency(i) ==
    <<"lib" \o ToString(i), "https://docs.example/lib" \o ToString(i)>>

Arguments(dependencyUL, codeSizeUnmodified, verifiedWith) ==
    [manifestRelPath |-> "crates/x/Cargo.toml",
     manifestHref |-> "https://github.com/x/x/blob/master/crates/x",
     license |-> "CC0-1.0",
     cargoAddCommand |-> "cargo add x --git https://github.com/x/x",
     dependencyUL |-> dependencyUL,
     codeSizeUnmodified |-> codeSizeUnmodified,
     verifiedWith |-> verifiedWith]

\* What the generator passes to a variant: the TypeScript variants take no
\* dependency list and a size that is a string or null.  A library with no
\* measured size comes with no verification, one with a size with one.
ArgumentsOf(v) ==
    { Arguments(d, c, IF c = Null THEN <<>> ELSE <<Pair(1)>>) :
        d \in (IF v = "registerModification_js" THEN {<<>>, <<Dependency(1)>>}
               ELSE {<<>>}),
        c \in {Null, String("1.5")} }

\* The arguments of a page that is modified again and again.
RepeatedArgumentsOf(v) ==
    { Arguments(IF v = "registerModification_js" THEN <<Dependency(1)>> ELSE <<>>,
                c, <<>>) : c \in {Null, String("0.9")} }

Variants == {"modifyDocblock", "registerModification_ts", "registerModification_js"}

Registering == {"registerModification_ts", "registerModification_js"}

NoCall == [name |-> "none", arg |-> createTextNode(""), result |-> createTextNode(""),
           called |-> FALSE]

----------------------------------------------------------------------------
(* The page's life: the script's calls, history.pushState, DOMContentLoaded. *)

Init ==
    /\ variant \in Variants
    /\ pathname \in Pathnames
    /\ document \in Pages
    /\ listeners = <<>>
    /\ fired = FALSE
    /\ calls = <<>>
    /\ runs = <<>>
    /\ before = document
    /\ document0 = document
    /\ atFire = [accepted |-> FALSE, listeners |-> 0]
    /\ fn = NoCall

\* registerModification(...): nothing when the pathname is not accepted,
\* otherwise one more DOMContentLoaded listener that holds the arguments.
registerModification(args, max) ==
    /\ variant \in Registering
    /\ Len(calls) < max
    /\ calls' = Append(calls, [accepted |-> endsWith(pathname, IndexSuffix),
                               fired |-> fired])
    /\ listeners' = IF ~pathnameAccepted(pathname) THEN listeners
                    ELSE Append(listeners, args)
    /\ UNCHANGED <<variant, pathname, document, fired, runs, before, document0,
                   atFire, fn>>

\* The listeners run one after the other, each to its end, in the order of
\* their registration.  s is [document, runs, before].
RECURSIVE dispatch(_, _, _, _)
dispatch(v, s, list, i) ==
    IF i > Len(list) THEN s
    ELSE LET r == callback(v, s.document, list[i])
         IN  dispatch(v,
                      IF r.ran
                      THEN [document |-> r.document,
                            runs |-> Append(s.runs, list[i]),
                            before |-> s.document]
                      ELSE s,
                      list, i + 1)

\* The browser dispatches DOMContentLoaded, once.
DOMContentLoaded ==
    /\ ~fired
    /\ fired' = TRUE
    /\ LET s == dispatch(variant,
                         [document |-> document, runs |-> runs, before |-> before],
                         listeners, 1)
       IN  /\ document' = s.document
           /\ runs' = s.runs
           /\ before' = s.before
    /\ atFire' = [accepted |-> endsWith(pathname, IndexSuffix),
                  listeners |-> Len(listeners)]
    /\ UNCHANGED <<variant, pathname, listeners, calls, document0, fn>>

\* A direct call of modifyDocblock(...).
callModifyDocblock(args, max) ==
    /\ variant = "modifyDocblock"
    /\ Len(calls) < max
    /\ calls' = Append(calls, [accepted |-> endsWith(pathname, IndexSuffix),
                               fired |-> fired])
    /\ LET r == modifyDocblock(document, args)
       IN  /\ document' = r.document
           /\ runs' = IF r.ran THEN Append(runs, args) ELSE runs
           /\ before' = IF r.ran THEN document ELSE before
    /\ UNCHANGED <<variant, pathname, listeners, fired, document0, atFire, fn>>

\* history.pushState(...) by another script of the page: the pathname that
\* registerModification reads changes.
pushState(url) ==
    /\ url # pathname
    /\ pathname' = url
    /\ UNCHANGED <<variant, document, listeners, fired, calls, runs, before,
                   document0, atFire, fn>>

Next ==
    \/ \E args \in ArgumentsOf(variant) : registerModification(args, MaxCalls)
    \/ \E args \in ArgumentsOf(variant) : callModifyDocblock(args, MaxCalls)
    \/ DOMContentLoaded
    \/ \E url \in Pathnames : pushState(url)

Spec == Init /\ [][Next]_vars

----------------------------------------------------------------------------
(* The routine run up to MaxRuns times on one page. *)

InitRepeat ==
    /\ variant \in Variants
    /\ pathname = <<"/", "x">> \o IndexSuffix
    /\ document = createDocument(<<Fqn, Docblock(Existing), Paragraph("Modules")>>)
    /\ listeners = <<>>
    /\ fired = FALSE
    /\ calls = <<>>
    /\ runs = <<>>
    /\ before = document
    /\ document0 = document
    /\ atFire = [accepted |-> FALSE, listeners |-> 0]
    /\ fn = NoCall

NextRepeat ==
    \/ \E args \in RepeatedArgumentsOf(variant) : registerModification(args, MaxRuns)
    \/ \E args \in RepeatedArgumentsOf(variant) : callModifyDocblock(args, MaxRuns)
    \/ DOMContentLoaded

SpecRepeat == InitRepeat /\ [][NextRepeat]_vars

----------------------------------------------------------------------------
(* The fragment builders and the heading downgrade applied on their own.   *)
(* fn is [name, arg, result, called]: the function, its input, and once    *)
(* called its result.                                                       *)

\* The lists of at most n elements of S.
RECURSIVE SeqsUpTo(_, _)
SeqsUpTo(S, n) ==
    IF n = 0 THEN {<<>>}
    ELSE LET shorter == SeqsUpTo(S, n - 1)
         IN  shorter \cup { Append(q, x) : q \in shorter, x \in S }

Call(name, arg) ==
    [name |-> name, arg |-> arg, result |-> createTextNode(""), called |-> FALSE]

InitFn ==
    /\ variant \in Variants
    /\ pathname = <<"/", "x">> \o IndexSuffix
    /\ document = createDocument(<<>>)
    /\ listeners = <<>>
    /\ fired = FALSE
    /\ calls = <<>>
    /\ runs = <<>>
    /\ before = document
    /\ document0 = document
    /\ atFire = [accepted |-> FALSE, listeners |-> 0]
    /\ fn \in { Call("createVerifiedWithSection", w) :
                  w \in SeqsUpTo({Pair(1), Pair(2)}, MaxPairs) }
              \cup { Call("createCodeSizeSection", c) :
                  c \in {String("1.5"), String("0.9")}
                        \cup (IF variant = "registerModification_js"
                              THEN { Number(b) : b \in 0..MaxBytes } ELSE {}) }
              \cup { Call("downgradeSectionHeaders", Docblock(kids)) :
                  kids \in SeqsUpTo(Shapes, MaxKids) }

callCreateVerifiedWithSection ==
    /\ fn.name = "createVerifiedWithSection" /\ ~fn.called
    /\ fn' = [fn EXCEPT !.called = TRUE,
                        !.result = IF variant = "modifyDocblock"
                                   THEN createVerifiedWithSection_md(fn.arg)
                                   ELSE createVerifiedWithSection(fn.arg)]
    /\ UNCHANGED <<variant, pathname, document, listeners, fired, calls, runs,
                   before, document0, atFire>>

callCreateCodeSizeSection ==
    /\ fn.name = "createCodeSizeSection" /\ ~fn.called
    /\ fn' = [fn EXCEPT !.called = TRUE,
                        !.result = IF variant = "registerModification_js"
                                   THEN createCodeSizeSection(fn.arg)
                                   ELSE createCodeSizeSection_ts(fn.arg)]
    /\ UNCHANGED <<variant, pathname, document, listeners, fired, calls, runs,
                   before, document0, atFire>>

\* The container is attached to a page of its own when it is downgraded.
callDowngradeSectionHeaders ==
    /\ fn.name = "downgradeSectionHeaders" /\ ~fn.called
    /\ fn' = [fn EXCEPT !.called = TRUE,
                        !.result = NodeAt(downgradeSectionHeaders(
                                            createDocument(<<fn.arg>>), <<1>>), <<1>>)]
    /\ UNCHANGED <<variant, pathname, document, listeners, fired, calls, runs,
                   before, document0, atFire>>

NextFn ==
    \/ callCreateVerifiedWithSection
    \/ callCreateCodeSizeSection
    \/ callDowngradeSectionHeaders

SpecFn == InitFn /\ [][NextFn]_vars

----------------------------------------------------------------------------
(* Properties of the heading downgrade. *)

Level(tagName) ==
    CASE tagName = "H1" -> 1 [] tagName = "H2" -> 2 [] tagName = "H3" -> 3
      [] tagName = "H4" -> 4 [] tagName = "H5" -> 5 [] tagName = "H6" -> 6
      [] OTHER -> 0

\* The tag n levels below tagName, the deepest being level 6; a tag that is
\* no heading stays what it is.
Deeper(tagName, n) ==
    IF Level(tagName) = 0 THEN tagName
    ELSE "H" \o ToString(IF Level(tagName) + n > 6 THEN 6 ELSE Level(tagName) + n)

\* new is old with every marked descendant n levels deeper, and nothing
\* else changed: same positions, attributes, text and children.
RECURSIVE DescendantsDowngraded(_, _, _)
DescendantsDowngraded(old, new, n) ==
    /\ Len(new.childNodes) = Len(old.childNodes)
    /\ \A i \in 1..Len(old.childNodes) :
          LET o == old.childNodes[i]
              d == new.childNodes[i]
          IN  /\ d.tagName = IF matches(o, "section-header")
                             THEN Deeper(o.tagName, n) ELSE o.tagName
              /\ d.attributes = o.attributes
              /\ d.data = o.data
              /\ DescendantsDowngraded(o, d, n)

Downgrading == fn.name = "downgradeSectionHeaders" /\ fn.called

\* C4: one call of downgradeSectionHeaders replaces every marked element of
\* the container by an element exactly one level deeper (H6 and tags that
\* are no headings keep their tag), with the same attributes and children at
\* the same position, and leaves every other node as it was.
C4_DowngradeOneLevel ==
    Downgrading =>
        /\ fn.result.tagName = fn.arg.tagName
        /\ fn.result.attributes = fn.arg.attributes
        /\ DescendantsDowngraded(fn.arg, fn.result, 1)

\* A container with a marked H5 inside a marked non-heading and a marked H6
\* has been downgraded: the H5 is an H6 now, the H6 still is one.
C4_Witness ==
    /\ Downgrading
    /\ \E i, j \in 1..Len(fn.arg.childNodes) :
          /\ fn.arg.childNodes[i].tagName = "DIV"
          /\ matches(fn.arg.childNodes[i], "section-header")
          /\ fn.arg.childNodes[i].childNodes[1].tagName = "H5"
          /\ fn.result.childNodes[i].childNodes[1].tagName = "H6"
          /\ fn.arg.childNodes[j].tagName = "H6"
          /\ fn.result.childNodes[j].tagName = "H6"
          /\ fn.result.childNodes[j].attributes # <<>>

----------------------------------------------------------------------------
(* Properties of the verification-status block. *)

BuildingVerifiedWith == fn.name = "createVerifiedWithSection" /\ fn.called

IsText(node, text) == node.tagName = "#text" /\ node.data = text

HasAttribute(node, name, value) ==
    \E i \in 1..Len(node.attributes) : node.attributes[i] = Attr(name, value)

IsLink(node, href, text) ==
    /\ node.tagName = "A"
    /\ HasAttribute(node, "href", href)
    /\ Len(node.childNodes) = 1
    /\ IsText(node.childNodes[1], text)

\* ul lists the pairs in their order: a link to the problem under its own
\* URL, and a link "code" to the solution.
ListsPairs(ul, verifiedWith) ==
    /\ ul.tagName = "UL"
    /\ Len(ul.childNodes) = Len(verifiedWith)
    /\ \A i \in 1..Len(verifiedWith) :
          LET li == ul.childNodes[i]
          IN  /\ li.tagName = "LI"
              /\ Len(li.childNodes) = 4
              /\ IsLink(li.childNodes[1], verifiedWith[i][1], verifiedWith[i][1])
              /\ IsLink(li.childNodes[3], verifiedWith[i][2], "code")

IsMark(node, char) == node.tagName = "IMG" /\ HasAttribute(node, "alt", char)

\* line is the status line for a list of n pairs.
IsStatusLine(line, n) ==
    CASE n = 0 ->
           /\ Len(line) = 1
           /\ line[1].tagName = "STRONG"
           /\ Len(line[1].childNodes) = 2
           /\ IsMark(line[1].childNodes[1], "WARNING SIGN")
           /\ IsText(line[1].childNodes[2], " This library is not verified.")
      [] n = 1 ->
           /\ Len(line) = 2
           /\ IsMark(line[1], "HEAVY CHECK MARK")
           /\ IsText(line[2], " This library verified with 1 solution.")
      [] OTHER ->
           /\ Len(line) = 2
           /\ IsMark(line[1], "HEAVY CHECK MARK")
           /\ IsText(line[2], " This library verified with " \o ToString(n)
                              \o " solutions.")

\* block is a status line followed by the list of the pairs.
IsStatusAndList(block, verifiedWith) ==
    /\ block.tagName = "DIV"
    /\ Len(block.childNodes) >= 2
    /\ IsStatusLine(SubSeq(block.childNodes, 1, Len(block.childNodes) - 1),
                    Len(verifiedWith))
    /\ ListsPairs(block.childNodes[Len(block.childNodes)], verifiedWith)

\* C5 as claimed: in every variant the verified-with block is the status
\* line for the number of pairs, followed by the list of the pairs.
C5_StatusLineInEveryVariant ==
    BuildingVerifiedWith => IsStatusAndList(fn.result, fn.arg)

\* C5 as amended: the block of the registerModification variants is the
\* status line for the number of pairs (warning and "not verified" for none,
\* check mark and the singular for one, check mark and the count for more)
\* followed by the list of the pairs in input order; the block of the
\* modifyDocblock variant is that list alone.
C5_StatusLineWhenRegistered ==
    BuildingVerifiedWith =>
        IF variant \in Registering
        THEN IsStatusAndList(fn.result, fn.arg)
        ELSE ListsPairs(fn.result, fn.arg)

\* A block for two different pairs has been built by a registerModification
\* variant.
C5_Witness ==
    /\ BuildingVerifiedWith
    /\ variant \in Registering
    /\ Len(fn.arg) = 2
    /\ fn.arg[1] # fn.arg[2]
    /\ IsText(fn.result.childNodes[2], " This library verified with 2 solutions.")

----------------------------------------------------------------------------
(* Properties of the code-size block. *)

BuildingCodeSize == fn.name = "createCodeSizeSection" /\ fn.called

\* The text that renders the size in the block of part_000.
RenderedSize == fn.result.childNodes[1].childNodes[2].data

\* C6: a byte count b is rendered as W.T KiB with W the whole kibibytes of
\* b and T the tenths of the rest, cut and never rounded: T is one digit and
\* W + T/10 is the largest such figure that does not exceed b/1024.  1536 is
\* rendered as 1.5 KiB, 1024 as 1.0 KiB, 0 as 0.0 KiB and 1000 as 0.9 KiB.
C6_KibibytesFloored ==
    (BuildingCodeSize /\ fn.arg.type = "number") =>
        LET b == fn.arg.number
        IN  /\ \E W \in 0..(MaxBytes \div 1000), T \in 0..9 :
                  /\ RenderedSize = ToString(W) \o "." \o ToString(T) \o " KiB"
                  /\ 1024 * W <= b /\ b < 1024 * (W + 1)
                  /\ 1024 * T <= 10 * (b - 1024 * W)
                  /\ 10 * (b - 1024 * W) < 1024 * (T + 1)
                  /\ 1024 * (10 * W + T) <= 10 * b
            /\ b = 1536 => RenderedSize = "1.5 KiB"
            /\ b = 1024 => RenderedSize = "1.0 KiB"
            /\ b = 0 => RenderedSize = "0.0 KiB"
            /\ b = 1000 => RenderedSize = "0.9 KiB"

\* The block for 1000 bytes has been built.
C6_Witness ==
    /\ BuildingCodeSize
    /\ fn.arg = Number(1000)
    /\ RenderedSize = "0.9 KiB"

\* C8: in every variant the code-size block is a list of the unmodified-size
\* item followed by the two placeholder items, so that every list item the
\* function builds is in the list it returns.
C8_PlaceholdersInEveryVariant ==
    BuildingCodeSize =>
        /\ fn.result.tagName = "UL"
        /\ Len(fn.result.childNodes) = 3
        /\ \A i \in 1..3 : fn.result.childNodes[i].tagName = "LI"
        /\ variant # "registerModification_js" =>
              \A i \in 1..Len(codeSizeItems_ts(fn.arg)) :
                  \E j \in 1..Len(fn.result.childNodes) :
                      fn.result.childNodes[j] = codeSizeItems_ts(fn.arg)[i]

----------------------------------------------------------------------------
(* Properties of a run of the routine. *)

Count(root, cls) == Len(querySelectorAll(root, <<>>, cls))

HasContainer(root) == querySelector(root, "docblock") # NoNode

HasAnchor(root) == querySelector(root, "fqn") # NoNode

\* The container of a page that has one.
Container(root) == NodeAt(root, querySelector(root, "docblock"))

ChildrenOfContainer(root) ==
    IF HasContainer(root) THEN Container(root).childNodes ELSE <<>>

Header(name, id) == [kind |-> "header", name |-> name, id |-> id]

Block(kind) == [kind |-> kind, name |-> "", id |-> ""]

IsHeader(node, name, id, level) ==
    /\ node.tagName = "H" \o ToString(level)
    /\ node.attributes = <<Attr("id", id), Attr("class", "section-header")>>
    /\ Len(node.childNodes) = 1
    /\ IsLink(node.childNodes[1], "#" \o id, name)

IsLicenseItem(li, license) ==
    /\ li.tagName = "LI"
    /\ Len(li.childNodes) = 2
    /\ IsText(li.childNodes[1], "License: ")
    /\ li.childNodes[2].tagName = "CODE"
    /\ IsText(li.childNodes[2].childNodes[1], license)

IsFirstBlock(node, args) ==
    /\ node.tagName = "UL"
    /\ Len(node.childNodes) = 2
    /\ node.childNodes[1].tagName = "LI"
    /\ \E i \in 1..Len(node.childNodes[1].childNodes) :
          /\ node.childNodes[1].childNodes[i].tagName = "A"
          /\ HasAttribute(node.childNodes[1].childNodes[i], "href", args.manifestHref)
    /\ IsLicenseItem(node.childNodes[2], args.license)

IsCommandBlock(node, args) ==
    /\ node.tagName = "PRE"
    /\ Len(node.childNodes) = 1
    /\ node.childNodes[1].tagName = "CODE"
    /\ IsText(node.childNodes[1].childNodes[1], "$ " \o args.cargoAddCommand \o "\n")

IsDependenciesBlock(node, args) ==
    IF args.dependencyUL = <<>> THEN IsText(node, "No dependencies.")
    ELSE /\ node.tagName = "UL"
         /\ Len(node.childNodes) = Len(args.dependencyUL)
         /\ \A i \in 1..Len(args.dependencyUL) :
               /\ node.childNodes[i].tagName = "LI"
               /\ IsLink(node.childNodes[i].childNodes[1],
                         args.dependencyUL[i][2], args.dependencyUL[i][1])

SizeStrings == {"1.5", "0.9"}

\* A list whose first item starts with the unmodified size.
IsCodeSizeBlock(node) ==
    /\ node.tagName = "UL"
    /\ Len(node.childNodes) >= 1
    /\ node.childNodes[1].tagName = "LI"
    /\ node.childNodes[1].childNodes[1].tagName = "#text"
    /\ node.childNodes[1].childNodes[1].data \in
          {"unmodified: "}
          \cup { "unmodified: " \o size \o " KiB + (not yet implemented) KiB" :
                 size \in SizeStrings }

IsCodeSizeHeader(node) ==
    /\ Level(node.tagName) > 0
    /\ HasAttribute(node, "id", "code-size")

IsVerifiedWithBlock(node, v, args) ==
    IF v \in Registering THEN IsStatusAndList(node, args.verifiedWith)
    ELSE ListsPairs(node, args.verifiedWith)

\* node is the child that item describes; a heading is at the given level.
Is(node, item, v, args, level) ==
    CASE item.kind = "header" -> IsHeader(node, item.name, item.id, level)
      [] item.kind = "first" -> IsFirstBlock(node, args)
      [] item.kind = "dependency" ->
           IsCommandBlock(node, args) \/ (isElement(node) /\ IsDependenciesBlock(node, args))
      [] item.kind = "command" -> IsCommandBlock(node, args)
      [] item.kind = "dependencies" -> IsDependenciesBlock(node, args)
      [] item.kind = "code-size" -> IsCodeSizeBlock(node)
      [] item.kind = "verified-with" -> IsVerifiedWithBlock(node, v, args)

CodeSizePart(args) ==
    IF args.codeSizeUnmodified # Null
    THEN <<Header("Code size", "code-size"), Block("code-size")>>
    ELSE <<>>

VerifiedWithPart ==
    <<Header("Verified with", "verified-with"), Block("verified-with"),
      Header("Description", "description")>>

\* The order of the injected children as claimed, top to bottom.
ClaimedOrder(v, args) ==
    <<Block("first"), Block("dependency")>> \o CodeSizePart(args) \o VerifiedWithPart

\* The order of the injected children: part_000 puts the install command,
\* a heading and the dependency list where the others put the command.
Order(v, args) ==
    <<Block("first"), Block("command")>>
    \o (IF v = "registerModification_js"
        THEN <<Header("Dependencies", "dependencies"), Block("dependencies")>>
        ELSE <<>>)
    \o CodeSizePart(args) \o VerifiedWithPart

\* children are the children that order describes, headings at level.
Matches(children, order, v, args, level) ==
    /\ Len(children) = Len(order)
    /\ \A i \in 1..Len(order) : Is(children[i], order[i], v, args, level)

LastArgs == runs[Len(runs)]

Node(children) ==
    [tagName |-> "DIV", attributes |-> <<>>, data |-> "", childNodes |-> children]

\* The children the most recent run put on top of those the container had.
Injected ==
    SubSeq(ChildrenOfContainer(document), 1,
           Len(ChildrenOfContainer(document)) - Len(ChildrenOfContainer(before)))

\* After the most recent run the container's children are those that order
\* describes, then those it had with the marked ones one level deeper; and
\* with a null size none of the injected children (none of all the children
\* after a first run) is a code-size heading or block.
RunLeaves(order) ==
    LET now == ChildrenOfContainer(document)
        was == ChildrenOfContainer(before)
        n == Len(now) - Len(was)
    IN  /\ n >= 0
        /\ Matches(SubSeq(now, 1, n), order, variant, LastArgs, 1)
        /\ DescendantsDowngraded(Node(was), Node(SubSeq(now, n + 1, Len(now))), 1)
        /\ LastArgs.codeSizeUnmodified = Null =>
              \A i \in 1..(IF Len(runs) = 1 THEN Len(now) ELSE n) :
                  ~IsCodeSizeHeader(now[i]) /\ ~IsCodeSizeBlock(now[i])

\* C1 as claimed: after a run the container's children are the first block,
\* the dependency block, the code-size heading and block if and only if the
\* size is not null, the verified-with heading and block, the description
\* heading, and then the children it had, in their order.
C1_ClaimedOrder == runs # <<>> => RunLeaves(ClaimedOrder(variant, LastArgs))

\* C1 as amended: the same, with three children in place of the dependency
\* block in the variant of part_000: the install-command block, the
\* dependencies heading, and the dependency list.  The children the container
\* had follow in their order, the marked ones one level deeper.  With a null
\* size no code-size heading and no code-size block are injected.
C1_Order == runs # <<>> => RunLeaves(Order(variant, LastArgs))

\* One run of part_000 with a size has put its nine children on top of the
\* five the container had.
C1_Witness ==
    /\ Len(runs) = 1
    /\ variant = "registerModification_js"
    /\ LastArgs.codeSizeUnmodified # Null
    /\ Len(Injected) = 9
    /\ Len(ChildrenOfContainer(before)) = 5
    /\ ChildrenOfContainer(document)[11].tagName = "H2"

----------------------------------------------------------------------------
(* Properties of the registration. *)

NoCallAccepted == \A i \in 1..Len(calls) : ~calls[i].accepted

\* C2: registerModification called under a pathname that does not end in
\* /index.html registers no listener, and the page is as it was parsed both
\* after the call and after DOMContentLoaded.
C2_NoOpOffIndexPage ==
    (variant \in Registering /\ NoCallAccepted) =>
        /\ listeners = <<>>
        /\ document = document0
        /\ runs = <<>>

\* registerModification was called under such a pathname on a page with an
\* anchor, and DOMContentLoaded fired afterwards.
C2_Witness ==
    /\ variant \in Registering
    /\ calls # <<>>
    /\ NoCallAccepted
    /\ ~calls[1].fired
    /\ fired
    /\ HasAnchor(document0)

\* C3: on a page with no container and no anchor the routine mutates
\* nothing.
C3_NoAnchorNoMutation ==
    (~HasContainer(document0) /\ ~HasAnchor(document0)) =>
        /\ document = document0
        /\ runs = <<>>

\* On such a page a registered listener has been dispatched.
C3_Witness ==
    /\ ~HasContainer(document0)
    /\ ~HasAnchor(document0)
    /\ fired
    /\ atFire.listeners >= 1

\* The number of children the run with args injects.
Injects(v, args) ==
    (IF v = "registerModification_js" THEN 7 ELSE 5)
    + (IF args.codeSizeUnmodified # Null THEN 2 ELSE 0)

RECURSIVE InjectedSince(_)
\* The number of children injected by the runs after run i.
InjectedSince(i) ==
    IF i >= Len(runs) THEN 0
    ELSE Injects(variant, runs[i + 1]) + InjectedSince(i + 1)

\* The place of the anchor on the page as parsed.
Anchor == querySelector(document0, "fqn")

\* C7: on a page with an anchor and no container, a run leaves exactly one
\* container and one toggle control, the toggle control right after the
\* anchor and the container right after the toggle control, the rest of the
\* page as it was, and the fragments in that container.  On a page with a
\* container nothing is created or inserted.
C7_ContainerCreatedOnce ==
    (variant \in Registering /\ runs # <<>>) =>
        IF HasContainer(document0)
        THEN LET docblock == querySelector(document, "docblock")
             IN  /\ Count(document, "docblock") = Count(document0, "docblock")
                 /\ Count(document, "toggle-wrapper") = 0
                 /\ docblock = querySelector(document0, "docblock")
                 /\ ReplaceAt(document, docblock, NodeAt(document0, docblock))
                      = document0
        ELSE LET anchor == Anchor
                 parent0 == NodeAt(document0, Front(anchor))
                 parent == NodeAt(document, Front(anchor))
                 i == Last(anchor)
             IN  /\ Count(document, "docblock") = 1
                 /\ Count(document, "toggle-wrapper") = 1
                 /\ Len(parent.childNodes) = Len(parent0.childNodes) + 2
                 /\ SubSeq(parent.childNodes, 1, i) = SubSeq(parent0.childNodes, 1, i)
                 /\ matches(parent.childNodes[i + 1], "toggle-wrapper")
                 /\ matches(parent.childNodes[i + 1].childNodes[1], "collapse-toggle")
                 /\ parent.childNodes[i + 2].tagName = "DIV"
                 /\ parent.childNodes[i + 2].attributes = <<Attr("class", "docblock")>>
                 /\ Len(parent.childNodes[i + 2].childNodes) = InjectedSince(0)
                 /\ SubSeq(parent.childNodes, i + 3, Len(parent.childNodes))
                      = SubSeq(parent0.childNodes, i + 1, Len(parent0.childNodes))
                 /\ ReplaceAt(document, Front(anchor), parent0) = document0

\* Two listeners have run on a page that had an anchor and no container:
\* the second found the container the first created.
C7_Witness ==
    /\ variant \in Registering
    /\ ~HasContainer(document0)
    /\ Len(runs) = 2
    /\ Count(document, "docblock") = 1

Accepted == SelectSeq(calls, LAMBDA c : c.accepted)

\* C9: the pathname is checked when registerModification is called and only
\* then; the page is not mutated before DOMContentLoaded; at DOMContentLoaded
\* every listener registered so far runs once, whatever the pathname is by
\* then; a listener registered later never runs; and the page changes in no
\* other step.
C9_DeferredToContentLoaded ==
    /\ [](variant \in Registering =>
            /\ Len(listeners) = Len(Accepted)
            /\ ~fired => (document = document0 /\ runs = <<>>)
            /\ fired =>
                 /\ atFire.listeners <= Len(listeners)
                 /\ Len(runs) = IF HasContainer(document0) \/ HasAnchor(document0)
                                THEN atFire.listeners ELSE 0
                 /\ runs = SubSeq(listeners, 1, Len(runs))
                 /\ atFire.listeners = 0 => document = document0)
    /\ [][(variant \in Registering /\ document' # document) => (~fired /\ fired')]_vars

\* A listener registered under /index.html has run although the pathname
\* was another one at DOMContentLoaded, and a listener registered after
\* DOMContentLoaded has not.
C9_Witness ==
    /\ variant \in Registering
    /\ fired
    /\ ~atFire.accepted
    /\ atFire.listeners = 1
    /\ Len(listeners) = 2
    /\ Len(runs) = 1
    /\ document # document0

----------------------------------------------------------------------------
(* Properties of repeated runs. *)

MinOf(a, b) == IF a < b THEN a ELSE b

\* C10: after k runs on a container the headings of run i are at level
\* min(1 + (k - i), 6), with the id, class and link createHeader gave them;
\* the blocks of the k runs lie on top of each other, the latest on top; and
\* below them the children the container had, every marked heading
\* min(level + k, 6) deep.
C10_HeadingsSinkWithEveryRun ==
    LET k == Len(runs)
        children == ChildrenOfContainer(document)
    IN  k >= 1 =>
          /\ Len(children) = InjectedSince(0) + Len(ChildrenOfContainer(document0))
          /\ \A i \in 1..k :
                Matches(SubSeq(children, InjectedSince(i) + 1, InjectedSince(i - 1)),
                        Order(variant, runs[i]), variant, runs[i],
                        MinOf(1 + (k - i), 6))
          /\ DescendantsDowngraded(
                Node(ChildrenOfContainer(document0)),
                Node(SubSeq(children, InjectedSince(0) + 1, Len(children))), k)

\* Six runs have been made; the headings of the first are at level 6, those
\* of the last at level 1.
C10_Witness ==
    /\ Len(runs) = 6
    /\ runs[1].codeSizeUnmodified # Null
    /\ ChildrenOfContainer(document)[InjectedSince(1) + Injects(variant, runs[1])].tagName
         = "H6"
    /\ ChildrenOfContainer(document)[Injects(variant, runs[6])].tagName = "H1"

====
